---- MODULE Spec2Model ----
(***************************************************************************)
(* Model of the ruskit metrics crate: the provider selector                *)
(* (provider::init), the backend installers (otlp_grpc, otlp, prom,        *)
(* stdout, noop) and the temporality selector.                             *)
(*                                                                         *)
(* Strings that the code parses (the auth header name and value) are       *)
(* sequences of one-character strings, so that parsing is computed.        *)
(***************************************************************************)
EXTENDS Integers, Sequences, FiniteSets, TLC

\* ------------------------------------------------------------------------
\* Bounds of the model
\* ------------------------------------------------------------------------

\* providers that may be created in one behaviour
MaxProviders == 2

\* data points recorded into one prometheus registry
MaxSeries == 2

\* ------------------------------------------------------------------------
\* Build-time features, configuration and inputs
\* ------------------------------------------------------------------------

\* the cargo features that gate a backend (lib.rs, exporters/mod.rs)
Features == {"otlp", "stdout"}

\* configs::MetricExporterKind, as matched exhaustively by provider::init
MetricExporterKind == {"OtlpGrpc", "Stdout"}

\* errors::MetricsError
MetricsError ==
    {"InternalError", "InvalidFeaturesError", "ConversionError", "ExporterProviderError"}

\* opentelemetry_sdk::metrics::InstrumentKind
InstrumentKind ==
    {"Counter", "UpDownCounter", "Histogram", "Gauge",
     "ObservableCounter", "ObservableUpDownCounter", "ObservableGauge"}

\* opentelemetry_sdk::metrics::Temporality, as returned by the selector
Temporality == {"Cumulative", "Delta"}

\* characters a header name may hold once normalised (http token characters)
LowerChars == {"a", "b", "e", "i", "k", "n", "p", "x", "y", "-"}

\* upper-case characters, which the header-name parser lower-cases
UpperChars == {"K", "X"}

\* visible ASCII that is legal in a header value but not in a header name
ValueOnlyChars == {" ", ":"}

\* the line feed, a control character: legal in neither
LF == "\n"

\* values of cfg.trace.header_access_key
HeaderNames ==
    { <<"X", "-", "K">>,               \* valid, normalised to x-k
      <<"x", " ", "k">>,               \* invalid: space in a name
      <<"x", "-", "b", "i", "n">> }    \* invalid: binary key for an Ascii key

\* values of cfg.trace.access_key
HeaderValues ==
    { <<"k", " ", "y">>,               \* valid: space is visible ASCII
      <<"k", LF, "y">> }               \* invalid: control character

\* values of cfg.metric.host
Hosts == {"", "http://collector:4317"}

\* values of cfg.metric.export_timeout (seconds)
ExportTimeouts == {0, 30}

\* values of cfg.metric.export_interval (seconds)
ExportIntervals == {30}

\* configs::Configs<T>, the fields the metrics crate reads
Configs ==
    [ enable : BOOLEAN,
      exporter : MetricExporterKind,
      header_access_key : HeaderNames,
      access_key : HeaderValues,
      host : Hosts,
      export_timeout : ExportTimeouts,
      export_interval : ExportIntervals ]

\* the configuration recorded for a call that takes none
NoCfg ==
    [ enable |-> FALSE, exporter |-> "Stdout", header_access_key |-> <<>>,
      access_key |-> <<>>, host |-> "", export_timeout |-> 30, export_interval |-> 30 ]

\* what building the export client can end in: "none" is success, the rest
\* are the underlying errors of the transport / exporter builder
BuildErrors == {"InvalidUri", "InternalFailure"}
BuildOutcomes == {"none"} \cup BuildErrors

\* ------------------------------------------------------------------------
\* Values
\* ------------------------------------------------------------------------

NoRegistry == 0

\* no auth metadata attached to the export client
NoMetadata == [key |-> <<>>, value |-> <<>>, present |-> FALSE]

Metadata(k, v) == [key |-> k, value |-> v, present |-> TRUE]

\* an SdkMeterProvider: its identity, the installer that assembled it, the
\* auth metadata and temporality its export client was built with and the
\* prometheus registry its reader is bound to
Provider(id, backend, metadata, temp, registry) ==
    [ id |-> id, backend |-> backend, metadata |-> metadata,
      temporality |-> temp, registry |-> registry ]

NoProvider == Provider(0, "none", NoMetadata, "none", NoRegistry)

\* Result<_, MetricsError>
Ok(p, r) == [tag |-> "Ok", provider |-> p, registry |-> r, error |-> "none", value |-> "none"]
Err(e) == [tag |-> "Err", provider |-> NoProvider, registry |-> NoRegistry, error |-> e, value |-> "none"]

\* the value returned by a call that is no installation
Value(t) == [tag |-> "Value", provider |-> NoProvider, registry |-> NoRegistry, error |-> "none", value |-> t]
NoResult == Value("none")

\* the outcome of building the export client in a call
Build(attempted, err) == [attempted |-> attempted, error |-> err]
NoBuild == Build(FALSE, "none")

\* ------------------------------------------------------------------------
\* exporters/selectors.rs
\* ------------------------------------------------------------------------

\* the selector with the observable variant missing from the match arm
temporality_without_observable(kind) ==
    IF kind = "UpDownCounter" THEN "Cumulative" ELSE "Delta"

\* OTLPTemporalitySelector::temporality
temporality(kind) ==
    IF kind \in {"UpDownCounter", "ObservableUpDownCounter"}
    THEN "Cumulative"
    ELSE "Delta"

\* ------------------------------------------------------------------------
\* opentelemetry::global
\* ------------------------------------------------------------------------

\* a registration that keeps the earlier provider next to the new one
set_meter_provider_merging(slot, provider) == slot \cup {provider}

\* global::set_meter_provider: the slot holds the new provider only
set_meter_provider(slot, provider) == {provider}

\* ------------------------------------------------------------------------
\* Parsing of the auth header (tonic metadata)
\* ------------------------------------------------------------------------

ToLower(c) ==
    CASE c = "K" -> "k"
      [] c = "X" -> "x"
      [] OTHER -> c

\* an Ascii metadata key must not carry the binary suffix
EndsWithBin(s) ==
    /\ Len(s) >= 4
    /\ SubSeq(s, Len(s) - 3, Len(s)) = <<"-", "b", "i", "n">>

\* header_access_key.parse::<MetadataKey<Ascii>>(): the name must be a
\* non-empty token; it is lower-cased; a "-bin" name is no Ascii key
parse_key(s) ==
    IF s = <<>> \/ \E i \in 1..Len(s) : s[i] \notin (LowerChars \cup UpperChars)
    THEN [ok |-> FALSE, key |-> <<>>]
    ELSE LET name == [i \in 1..Len(s) |-> ToLower(s[i])]
         IN IF EndsWithBin(name)
            THEN [ok |-> FALSE, key |-> <<>>]
            ELSE [ok |-> TRUE, key |-> name]

\* access_key.parse::<MetadataValue<Ascii>>(): every byte visible ASCII;
\* the bytes are kept as they are
parse_value(s) ==
    IF \E i \in 1..Len(s) : s[i] \notin (LowerChars \cup UpperChars \cup ValueOnlyChars)
    THEN [ok |-> FALSE, value |-> <<>>]
    ELSE [ok |-> TRUE, value |-> s]

\* the key the otlp installer falls back to
DefaultKey == <<"a", "p", "i", "-", "k", "e", "y">>

\* ------------------------------------------------------------------------
\* Classification of a failed client construction
\* ------------------------------------------------------------------------

\* a classification that lets an internal failure through under its own name
classify_passthrough(err) ==
    IF err = "InternalFailure" THEN "InternalError" ELSE "ExporterProviderError"

\* Err(err) => { error!(..); Err(MetricsError::ExporterProviderError) }
classify(err) == "ExporterProviderError"

\* ------------------------------------------------------------------------
\* Backend installers
\* ------------------------------------------------------------------------

\* what a call leaves behind: its return value, the global provider slot,
\* the registries alive, the client construction and the installers it ran
Outcome(res, slot, regs, bld, inv) ==
    [ result |-> res, global |-> slot, registries |-> regs, build |-> bld, invoked |-> inv ]

\* exporters::noop::install
noop_install(slot, regs, id) ==
    Outcome(Ok(Provider(id, "noop", NoMetadata, "none", NoRegistry), NoRegistry),
            slot, regs, NoBuild, <<"noop">>)

\* exporters::stdout::install: the stdout exporter cannot fail to build; the
\* installer registers the provider itself
stdout_install(slot, regs, id) ==
    LET provider == Provider(id, "stdout", NoMetadata, "default", NoRegistry)
    IN Outcome(Ok(provider, NoRegistry), set_meter_provider(slot, provider),
               regs, NoBuild, <<"stdout">>)

\* an installer that registers the provider before the client is built
otlp_grpc_install_registers_first(slot, regs, id, berr) ==
    LET provider == Provider(id, "otlp_grpc", NoMetadata, "default", NoRegistry)
    IN IF berr # "none"
       THEN Outcome(Err(classify(berr)), set_meter_provider(slot, provider),
                    regs, Build(TRUE, berr), <<"otlp_grpc">>)
       ELSE Outcome(Ok(provider, NoRegistry), set_meter_provider(slot, provider),
                    regs, Build(TRUE, "none"), <<"otlp_grpc">>)

\* exporters::otlp_grpc::install: reads its settings from OTLPConfigs::new(),
\* attaches no metadata and sets no temporality; registers the provider itself
otlp_grpc_install(slot, regs, id, berr) ==
    IF berr # "none"
    THEN Outcome(Err(classify(berr)), slot, regs, Build(TRUE, berr), <<"otlp_grpc">>)
    ELSE LET provider == Provider(id, "otlp_grpc", NoMetadata, "default", NoRegistry)
         IN Outcome(Ok(provider, NoRegistry), set_meter_provider(slot, provider),
                    regs, Build(TRUE, "none"), <<"otlp_grpc">>)

\* an installer that builds the client before it validates the auth value
otlp_install_builds_first(cfg, slot, regs, id, berr) ==
    LET k == parse_key(cfg.header_access_key)
        key == IF k.ok THEN k.key ELSE DefaultKey
        v == parse_value(cfg.access_key)
    IN IF berr # "none"
       THEN Outcome(Err(classify(berr)), slot, regs, Build(TRUE, berr), <<"otlp">>)
       ELSE IF ~v.ok
       THEN Outcome(Err("ConversionError"), slot, regs, Build(TRUE, "none"), <<"otlp">>)
       ELSE Outcome(Ok(Provider(id, "otlp", Metadata(key, v.value), "Delta", NoRegistry),
                       NoRegistry),
                    slot, regs, Build(TRUE, "none"), <<"otlp">>)

\* exporters::otlp::install: the installer that takes the configuration
otlp_install(cfg, slot, regs, id, berr) ==
    LET k == parse_key(cfg.header_access_key)
        key == IF k.ok THEN k.key ELSE DefaultKey
        v == parse_value(cfg.access_key)
    IN IF ~v.ok
       THEN Outcome(Err("ConversionError"), slot, regs, NoBuild, <<"otlp">>)
       ELSE IF berr # "none"
       THEN Outcome(Err(classify(berr)), slot, regs, Build(TRUE, berr), <<"otlp">>)
       ELSE Outcome(Ok(Provider(id, "otlp", Metadata(key, v.value), "Delta", NoRegistry),
                       NoRegistry),
                    slot, regs, Build(TRUE, "none"), <<"otlp">>)

\* a registry shared by every installation instead of a new one
Registry_shared(regs, id) ==
    IF DOMAIN regs = {}
    THEN [handle |-> id, registries |-> (id :> 0) @@ regs]
    ELSE [handle |-> CHOOSE r \in DOMAIN regs : \A q \in DOMAIN regs : r <= q,
          registries |-> regs]

\* prometheus::Registry::new(): a new registry, with no series in it
Registry_new(regs, id) ==
    [handle |-> id, registries |-> (id :> 0) @@ regs]

\* exporters::prom::install: reads only the resource fields; a registry whose
\* exporter fails to build is dropped
prom_install(slot, regs, id, berr) ==
    LET registry == Registry_new(regs, id)
    IN IF berr # "none"
       THEN Outcome(Err(classify(berr)), slot, regs, Build(TRUE, berr), <<"prom">>)
       ELSE Outcome(Ok(Provider(id, "prom", NoMetadata, "none", registry.handle),
                       registry.handle),
                    slot, registry.registries, Build(TRUE, "none"), <<"prom">>)

\* ------------------------------------------------------------------------
\* provider.rs
\* ------------------------------------------------------------------------

\* NoopMeterProvider::new()
NoopMeterProvider_new(id) == Provider(id, "noop", NoMetadata, "none", NoRegistry)

\* a selector that installs the no-op backend when the feature is absent
missing_feature_falls_back(slot, regs, id) ==
    Outcome(Ok(NoopMeterProvider_new(id), NoRegistry), slot, regs, NoBuild, <<"noop">>)

\* the #[cfg(not(feature = ..))] arm of provider::init
missing_feature(slot, regs, id) ==
    Outcome(Err("InvalidFeaturesError"), slot, regs, NoBuild, <<>>)

\* an arm that calls the installer a second time after it failed
installed_arm_retrying(out) ==
    IF out.result.tag = "Err"
    THEN Outcome(out.result, out.global, out.registries, out.build,
                 out.invoked \o out.invoked)
    ELSE Outcome(Ok(out.result.provider, NoRegistry),
                 set_meter_provider(out.global, out.result.provider),
                 out.registries, out.build, out.invoked)

\* the arm of provider::init for an installer that was compiled in: the
\* installer's error is returned as it is; on success the provider is
\* registered and returned
installed_arm(out) ==
    IF out.result.tag = "Err"
    THEN out
    ELSE Outcome(Ok(out.result.provider, NoRegistry),
                 set_meter_provider(out.global, out.result.provider),
                 out.registries, out.build, out.invoked)

\* a selector that looks at the exporter before it looks at the enabled flag
provider_init_exporter_first(cfg, feats, slot, regs, id, berr) ==
    IF cfg.exporter = "OtlpGrpc" /\ "otlp" \notin feats
    THEN missing_feature(slot, regs, id)
    ELSE IF cfg.exporter = "Stdout" /\ "stdout" \notin feats
    THEN missing_feature(slot, regs, id)
    ELSE IF ~cfg.enable
    THEN Outcome(Ok(NoopMeterProvider_new(id), NoRegistry), slot, regs, NoBuild, <<>>)
    ELSE IF cfg.exporter = "OtlpGrpc"
    THEN installed_arm(otlp_grpc_install(slot, regs, id, berr))
    ELSE installed_arm(stdout_install(slot, regs, id))

\* a selector that registers the no-op provider when metrics are disabled
provider_init_disabled_registers(cfg, feats, slot, regs, id, berr) ==
    IF ~cfg.enable
    THEN Outcome(Ok(NoopMeterProvider_new(id), NoRegistry),
                 set_meter_provider(slot, NoopMeterProvider_new(id)), regs, NoBuild, <<>>)
    ELSE IF cfg.exporter = "OtlpGrpc"
    THEN IF "otlp" \in feats
         THEN installed_arm(otlp_grpc_install(slot, regs, id, berr))
         ELSE missing_feature(slot, regs, id)
    ELSE IF "stdout" \in feats
         THEN installed_arm(stdout_install(slot, regs, id))
         ELSE missing_feature(slot, regs, id)

\* provider::init
provider_init(cfg, feats, slot, regs, id, berr) ==
    IF ~cfg.enable
    THEN Outcome(Ok(NoopMeterProvider_new(id), NoRegistry), slot, regs, NoBuild, <<>>)
    ELSE IF cfg.exporter = "OtlpGrpc"
    THEN IF "otlp" \in feats
         THEN installed_arm(otlp_grpc_install(slot, regs, id, berr))
         ELSE missing_feature(slot, regs, id)
    ELSE IF "stdout" \in feats
         THEN installed_arm(stdout_install(slot, regs, id))
         ELSE missing_feature(slot, regs, id)

\* ------------------------------------------------------------------------
\* State
\* ------------------------------------------------------------------------

VARIABLES
    features,         \* the cargo features of this build
    global_provider,  \* the slot behind opentelemetry::global
    registries,       \* prometheus registries alive: handle -> series held
    next_id,          \* providers created so far
    call,             \* the last call: operation and arguments
    result,           \* what the last call returned
    global_before,    \* the global slot when the last call began
    build,            \* the client construction of the last call
    invoked,          \* the installers the last call ran
    last_installed    \* the most recent installation call that returned Ok

vars ==
    << features, global_provider, registries, next_id, call, result,
       global_before, build, invoked, last_installed >>

Call(op, cfg, kind, registry) ==
    [op |-> op, cfg |-> cfg, kind |-> kind, registry |-> registry]

NoInstallation ==
    [op |-> "none", enable |-> FALSE, provider |-> NoProvider, slot_before |-> {}]

Init ==
    /\ features \in SUBSET Features
    /\ global_provider = {}
    /\ registries = <<>>
    /\ next_id = 0
    /\ call = Call("none", NoCfg, "none", NoRegistry)
    /\ result = NoResult
    /\ global_before = {}
    /\ build = NoBuild
    /\ invoked = <<>>
    /\ last_installed = NoInstallation

\* an installation call returns: its outcome becomes the state
Return(op, cfg, out) ==
    /\ call' = Call(op, cfg, "none", NoRegistry)
    /\ result' = out.result
    /\ global_before' = global_provider
    /\ global_provider' = out.global
    /\ registries' = out.registries
    /\ build' = out.build
    /\ invoked' = out.invoked
    /\ next_id' = IF out.result.tag = "Ok" THEN next_id + 1 ELSE next_id
    /\ last_installed' =
          IF out.result.tag = "Ok"
          THEN [op |-> op, enable |-> cfg.enable, provider |-> out.result.provider,
                slot_before |-> global_provider]
          ELSE last_installed
    /\ UNCHANGED features

\* ------------------------------------------------------------------------
\* Operations
\* ------------------------------------------------------------------------

\* a call of provider::init(cfg)
CallInit ==
    \E cfg \in Configs, berr \in BuildOutcomes :
        /\ next_id < MaxProviders
        /\ Return("init", cfg,
                  provider_init(cfg, features, global_provider, registries, next_id + 1, berr))

\* a direct call of exporters::otlp_grpc::install(), compiled with "otlp"
CallOtlpGrpcInstall ==
    \E berr \in BuildOutcomes :
        /\ "otlp" \in features
        /\ next_id < MaxProviders
        /\ Return("otlp_grpc_install", NoCfg,
                  otlp_grpc_install(global_provider, registries, next_id + 1, berr))

\* a direct call of exporters::stdout::install(), compiled with "stdout"
CallStdoutInstall ==
    /\ "stdout" \in features
    /\ next_id < MaxProviders
    /\ Return("stdout_install", NoCfg,
              stdout_install(global_provider, registries, next_id + 1))

\* a direct call of exporters::noop::install()
CallNoopInstall ==
    /\ next_id < MaxProviders
    /\ Return("noop_install", NoCfg,
              noop_install(global_provider, registries, next_id + 1))

\* a direct call of exporters::otlp::install(cfg)
CallOtlpInstall ==
    \E cfg \in Configs, berr \in BuildOutcomes :
        /\ cfg.enable /\ cfg.exporter = "OtlpGrpc"
        /\ next_id < MaxProviders
        /\ Return("otlp_install", cfg,
                  otlp_install(cfg, global_provider, registries, next_id + 1, berr))

\* a direct call of exporters::prom::install(cfg)
CallPromInstall ==
    \E berr \in BuildOutcomes :
        /\ next_id < MaxProviders
        /\ Return("prom_install", NoCfg,
                  prom_install(global_provider, registries, next_id + 1, berr))

\* an instrument of the provider bound to registry r records a data point
Record ==
    \E r \in DOMAIN registries :
        /\ registries[r] < MaxSeries
        /\ registries' = [registries EXCEPT ![r] = @ + 1]
        /\ call' = Call("record", NoCfg, "none", r)
        /\ result' = NoResult
        /\ global_before' = global_provider
        /\ build' = NoBuild
        /\ invoked' = <<>>
        /\ UNCHANGED << features, global_provider, next_id, last_installed >>

\* a call of OTLPTemporalitySelector::temporality(kind): &self of a unit
\* struct, nothing is written
CallTemporality ==
    \E kind \in InstrumentKind :
        /\ call' = Call("temporality", NoCfg, kind, NoRegistry)
        /\ result' = Value(temporality(kind))
        /\ global_before' = global_provider
        /\ build' = NoBuild
        /\ invoked' = <<>>
        /\ UNCHANGED << features, global_provider, registries, next_id, last_installed >>

Next ==
    \/ CallInit
    \/ CallOtlpGrpcInstall
    \/ CallStdoutInstall
    \/ CallNoopInstall
    \/ CallOtlpInstall
    \/ CallPromInstall
    \/ Record
    \/ CallTemporality

Spec == Init /\ [][Next]_vars

\* ------------------------------------------------------------------------
\* Vocabulary of the properties
\* ------------------------------------------------------------------------

\* the cargo feature that gates the installer of an exporter kind
FeatureOf(kind) == IF kind = "OtlpGrpc" THEN "otlp" ELSE "stdout"

\* the installer the match arm of an exporter kind calls
InstallerOf(kind) == IF kind = "OtlpGrpc" THEN "otlp_grpc" ELSE "stdout"

\* the backend kind of the design that an exporter kind of the code stands for
KindOf(kind) == IF kind = "OtlpGrpc" THEN "push-collector" ELSE "console"

\* the temporality the export client of a provider reports an instrument
\* kind with: the one constant handed to with_temporality, or the builder's
\* default (Cumulative) when none is handed over; the same for every kind
PipelineTemporality(provider, kind) ==
    IF provider.temporality = "Delta" THEN "Delta" ELSE "Cumulative"

\* the operations that are installation calls
InstallOps ==
    {"init", "otlp_grpc_install", "stdout_install", "noop_install",
     "otlp_install", "prom_install"}

\* the last call was provider::init with metrics enabled
EnabledInit == call.op = "init" /\ call.cfg.enable

\* an installation call that registers the provider it returns: an enabled
\* provider::init, or the stdout / otlp_grpc installer called directly
Registers(inst) ==
    \/ inst.op = "init" /\ inst.enable
    \/ inst.op \in {"otlp_grpc_install", "stdout_install"}

\* ------------------------------------------------------------------------
\* C1
\* ------------------------------------------------------------------------

\* C1: for every instrument kind the temporality selector returns Cumulative
\* for UpDownCounter and ObservableUpDownCounter and Delta for every other
\* kind; it returns a temporality for every kind, and a call of it changes
\* neither the global provider, nor the registries, nor any provider.
C1_TemporalityPolicy ==
    /\ [](call.op = "temporality" =>
            /\ result.value \in Temporality
            /\ call.kind \in {"UpDownCounter", "ObservableUpDownCounter"}
                  => result.value = "Cumulative"
            /\ call.kind \in {"Counter", "Histogram", "Gauge", "ObservableCounter",
                              "ObservableGauge"}
                  => result.value = "Delta")
    /\ [][call'.op = "temporality" =>
            UNCHANGED << features, global_provider, registries, next_id, last_installed >>]_vars

C1_Witness ==
    /\ call.op = "temporality"
    /\ call.kind = "ObservableUpDownCounter"
    /\ result.value = "Cumulative"
    /\ global_provider # {}

\* ------------------------------------------------------------------------
\* C2
\* ------------------------------------------------------------------------

\* C2: a provider::init call with enable = false returns Ok with the no-op
\* provider and no error, whatever the exporter kind, endpoint, auth header,
\* timeout and interval are and whatever features were compiled in.
C2_DisabledInstallsNoop ==
    (call.op = "init" /\ ~call.cfg.enable) =>
        /\ result.tag = "Ok"
        /\ result.provider.backend = "noop"
        /\ result.error = "none"

C2_Witness ==
    /\ call.op = "init"
    /\ ~call.cfg.enable
    /\ features = {}
    /\ ~parse_value(call.cfg.access_key).ok
    /\ ~parse_key(call.cfg.header_access_key).ok
    /\ call.cfg.host = ""
    /\ result.tag = "Ok"
    /\ result.provider.backend = "noop"

\* ------------------------------------------------------------------------
\* C3
\* ------------------------------------------------------------------------

\* C3: provider::init with enable = true, exporter OtlpGrpc (push-collector
\* support compiled in) and an auth header value that is no valid metadata
\* value fails with ConversionError and leaves the global provider as it was.
C3_InvalidValueIsConversionError ==
    (/\ EnabledInit
     /\ call.cfg.exporter = "OtlpGrpc"
     /\ "otlp" \in features
     /\ ~parse_value(call.cfg.access_key).ok) =>
        /\ result = Err("ConversionError")
        /\ global_provider = global_before

\* ------------------------------------------------------------------------
\* C4
\* ------------------------------------------------------------------------

\* C4: provider::init with enable = true, exporter OtlpGrpc (compiled in), an
\* auth header name that is no valid metadata key, a valid auth header value
\* and a client that builds succeeds, the provider's auth metadata key is
\* "api-key", and the provider is the registered global provider.
C4_InvalidNameFallsBackToApiKey ==
    (/\ EnabledInit
     /\ call.cfg.exporter = "OtlpGrpc"
     /\ "otlp" \in features
     /\ ~parse_key(call.cfg.header_access_key).ok
     /\ parse_value(call.cfg.access_key).ok
     /\ build = Build(TRUE, "none")) =>
        /\ result.tag = "Ok"
        /\ result.provider.metadata.present
        /\ result.provider.metadata.key = DefaultKey
        /\ global_provider = {result.provider}

\* ------------------------------------------------------------------------
\* C5
\* ------------------------------------------------------------------------

C6_LastInstalledIsGlobal ==
    /\ Cardinality(global_provider) <= 1
    /\ last_installed.op # "none" => global_provider = {last_installed.provider}

\* C6 amended: the global slot holds at most one provider; when the most
\* recent successful installation was one that registers (an enabled
\* provider::init, or the stdout or otlp_grpc installer called directly) and
\* returned P, the slot holds exactly P; when it was one that does not
\* register (a disabled provider::init, or the noop, otlp or prom installer)
\* the slot holds what it held before that call.
C6_LastRegisteredIsGlobal ==
    /\ Cardinality(global_provider) <= 1
    /\ last_installed.op # "none" =>
          IF Registers(last_installed)
          THEN global_provider = {last_installed.provider}
          ELSE global_provider = last_installed.slot_before

C6_Witness ==
    /\ last_installed.op = "init"
    /\ last_installed.enable
    /\ last_installed.slot_before # {}
    /\ last_installed.slot_before # {last_installed.provider}
    /\ global_provider = {last_installed.provider}

\* ------------------------------------------------------------------------
\* C7
\* ------------------------------------------------------------------------

\* C7: every installation call returns either Ok with an assembled provider
\* and no error, or Err with one MetricsError and no provider; after Err the
\* global provider is what it was before the call, and after Ok it is either
\* what it was or the returned provider.
C7_AllOrNothing ==
    call.op \in InstallOps =>
        \/ /\ result.tag = "Ok"
           /\ result.error = "none"
           /\ result.provider # NoProvider
           /\ result.provider.backend \in {"noop", "stdout", "otlp_grpc", "otlp", "prom"}
           /\ global_provider \in {global_before, {result.provider}}
        \/ /\ result.tag = "Err"
           /\ result.error \in MetricsError
           /\ result.provider = NoProvider
           /\ global_provider = global_before

C7_Witness ==
    /\ call.op = "init"
    /\ result.tag = "Err"
    /\ result.error = "ExporterProviderError"
    /\ global_before # {}
    /\ global_provider = global_before

\* ------------------------------------------------------------------------
\* C8
\* ------------------------------------------------------------------------

\* C8: whenever a call built the export client (of otlp_grpc, otlp or prom,
\* directly or through provider::init) and the construction failed, the call
\* returns Err(ExporterProviderError), whichever error the construction
\* ended in.
C8_BuildFailureIsClassified ==
    (/\ call.op \in {"init", "otlp_grpc_install", "otlp_install", "prom_install"}
     /\ build.attempted
     /\ build.error # "none") =>
        result = Err("ExporterProviderError")

C8_Witness ==
    /\ call.op = "init"
    /\ build.attempted
    /\ build.error = "InternalFailure"
    /\ result = Err("ExporterProviderError")

\* ------------------------------------------------------------------------
\* C9
\* ------------------------------------------------------------------------

\* C9: a direct call of the push-collector installer leaves the global
\* provider as it was: only provider::init writes the slot.
C9_InstallerDoesNotRegister ==
    call.op \in {"otlp_grpc_install", "otlp_install"} =>
        global_provider = global_before

\* ------------------------------------------------------------------------
\* C10
\* ------------------------------------------------------------------------

\* C10: a successful prom installation returns a provider and a registry that
\* did not exist before the call and holds no series when the call returns;
\* the series of a registry change only when an instrument records through
\* the provider bound to it.
C10_FreshEmptyRegistry ==
    /\ []((call.op = "prom_install" /\ result.tag = "Ok") =>
            /\ result.provider.backend = "prom"
            /\ result.registry # NoRegistry
            /\ result.provider.registry = result.registry
            /\ result.registry \in DOMAIN registries
            /\ registries[result.registry] = 0)
    /\ [][/\ (call'.op = "prom_install" /\ result'.tag = "Ok") =>
                result'.registry \notin DOMAIN registries
          /\ \A r \in DOMAIN registries :
                (r \in DOMAIN registries' /\ registries'[r] # registries[r]) =>
                    (call'.op = "record" /\ call'.registry = r)]_vars

C10_Witness ==
    /\ call.op = "prom_install"
    /\ result.tag = "Ok"
    /\ registries[result.registry] = 0
    /\ \E r \in DOMAIN registries : registries[r] > 0

\* ------------------------------------------------------------------------
\* C11
\* ------------------------------------------------------------------------

\* the dispatch of an enabled provider::init call: the installer of the
\* exporter kind runs once when its feature is compiled in and the call
\* returns what it returned; no installer runs otherwise and the call fails
DispatchesItsInstaller ==
    EnabledInit =>
        /\ Len(invoked) <= 1
        /\ result.tag \in {"Ok", "Err"}
        /\ IF FeatureOf(call.cfg.exporter) \in features
           THEN /\ invoked = <<InstallerOf(call.cfg.exporter)>>
                /\ result.tag = "Ok" => result.provider.backend = InstallerOf(call.cfg.exporter)
                /\ result.tag = "Err" => build.attempted /\ build.error # "none"
           ELSE /\ invoked = <<>>
                /\ result = Err("InvalidFeaturesError")

C12_ClientUsesTemporalityPolicy ==
    (/\ \/ call.op \in {"otlp_install", "otlp_grpc_install"}
        \/ EnabledInit /\ call.cfg.exporter = "OtlpGrpc"
     /\ result.tag = "Ok") =>
        \A kind \in InstrumentKind :
            PipelineTemporality(result.provider, kind) = temporality(kind)

\* ------------------------------------------------------------------------
\* C13
\* ------------------------------------------------------------------------

\* C13: a provider::init call with enable = false runs no installer, builds
\* no client and leaves the global provider slot as it was; the no-op
\* provider it returns is not the registered one, so a provider registered
\* earlier is still the global provider.
C13_DisabledLeavesGlobal ==
    (call.op = "init" /\ ~call.cfg.enable) =>
        /\ invoked = <<>>
        /\ ~build.attempted
        /\ global_provider = global_before
        /\ result.provider \notin global_provider

C13_Witness ==
    /\ call.op = "init"
    /\ ~call.cfg.enable
    /\ result.tag = "Ok"
    /\ result.provider.backend = "noop"
    /\ global_before # {}
    /\ global_provider = global_before
    /\ \E p \in global_provider : p.backend \in {"otlp_grpc", "stdout"} /\ p # result.provider

\* ------------------------------------------------------------------------
\* C14
\* ------------------------------------------------------------------------

\* C14: in the otlp installer an invalid auth header value gives
\* ConversionError without the client being built, whatever the endpoint and
\* the outcome its construction would have had and whether or not the header
\* name is valid; ExporterProviderError is returned only when the value is
\* valid and the construction was attempted and failed.
C14_ValueCheckedBeforeBuild ==
    call.op = "otlp_install" =>
        /\ ~parse_value(call.cfg.access_key).ok =>
              /\ result = Err("ConversionError")
              /\ ~build.attempted
        /\ result.error = "ExporterProviderError" =>
              /\ parse_value(call.cfg.access_key).ok
              /\ build.attempted
              /\ build.error # "none"
        /\ build.attempted => parse_value(call.cfg.access_key).ok

C14_Witness ==
    /\ call.op = "otlp_install"
    /\ ~parse_value(call.cfg.access_key).ok
    /\ ~parse_key(call.cfg.header_access_key).ok
    /\ call.cfg.host = ""
    /\ result = Err("ConversionError")
    /\ ~build.attempted

====
